---- MODULE Spec2Model ----
(***************************************************************************)
(* tcp-proxy (src/src/main.rs): the accept loop of main, the handler task  *)
(* handle_connection spawned per accepted client, and the drain that main  *)
(* runs after Ctrl+C.                                                      *)
(*                                                                         *)
(* The environment (clients, the remote, the clock, the operating system)  *)
(* is modelled by the actions ClientArrives, Signal, ConnectResolves,      *)
(* Tick, PeerSends and PeerCloses; every other action is a step of main or *)
(* of one handler task between two of its await points.                    *)
(***************************************************************************)
EXTENDS Integers, Sequences, FiniteSets

\* Bounds of the model.
MaxConns == 2        \* clients that connect during a run
MaxBytes == 2        \* bytes sent by all peers together during a run
MaxTimeout == 1      \* largest timeout, in clock ticks; timers saturate there
MaxAcceptErrs == 1   \* failed accept calls during a run
MaxBacklog == 1      \* clients waiting in the listen queue

VARIABLES
    connect_timeout,  \* args.connect_timeout, in ticks
    session_timeout,  \* args.session_timeout, in ticks; 0 disables it
    mainPc,           \* where main is: "select", "drop", "drain", "done"
    listener,         \* "bound" or "dropped"
    sigPending,       \* Ctrl+C was delivered and the loop can still see it
    backlog,          \* clients connected to the listener, not yet accepted
    next_conn_id,     \* main's next_conn_id
    acceptWarns,      \* "Failed to accept connection" warnings logged
    tasks,            \* the JoinSet: indices of the tasks not yet joined
    conns,            \* one record per spawned handle_connection task
    joinErrs,         \* "A connection task ended with an error" lines logged
    exit              \* "running", or "status0" once main returned Ok(())

vars == <<connect_timeout, session_timeout, mainPc, listener, sigPending,
          backlog, next_conn_id, acceptWarns, tasks, conns, joinErrs, exit>>

cfgVars == <<connect_timeout, session_timeout>>
mainVars == <<mainPc, listener, sigPending, backlog, next_conn_id,
              acceptWarns, tasks, joinErrs, exit>>

Dirs == {"c2r", "r2c"}

ConnectTimeouts == 1..MaxTimeout
SessionTimeouts == 0..MaxTimeout

Zero == [d \in Dirs |-> 0]
NoDir == [d \in Dirs |-> FALSE]

\* The state of a task the moment it is spawned: it owns the client socket
\* and has started its single outbound connect, bounded by the connect timer.
NewConn(id) ==
    [id |-> id, state |-> "Connecting", connRes |-> "pending", elapsed |-> 0,
     attempts |-> 1, client |-> "open", remote |-> "none",
     sent |-> Zero, eof |-> NoDir, amt |-> Zero, done |-> NoDir,
     obs |-> << >>, stats |-> << >>,
     clientCloses |-> 0, remoteCloses |-> 0, closeErr |-> FALSE]

Init ==
    /\ connect_timeout \in ConnectTimeouts
    /\ session_timeout \in SessionTimeouts
    /\ mainPc = "select"
    /\ listener = "bound"
    /\ sigPending = FALSE
    /\ backlog = 0
    /\ next_conn_id = 1
    /\ acceptWarns = 0
    /\ tasks = {}
    /\ conns = << >>
    /\ joinErrs = 0
    /\ exit = "running"

Spawned == 1..Len(conns)

RECURSIVE SumSent(_)
SumSent(n) ==
    IF n = 0 THEN 0
    ELSE conns[n].sent["c2r"] + conns[n].sent["r2c"] + SumSent(n - 1)
TotalSent == SumSent(Len(conns))

----------------------------------------------------------------------------
\* Environment of main.

\* A client completes a TCP handshake with the listening socket.
ClientArrives ==
    /\ listener = "bound"
    /\ backlog < MaxBacklog
    /\ Len(conns) + backlog < MaxConns
    /\ backlog' = backlog + 1
    /\ UNCHANGED <<cfgVars, mainPc, listener, sigPending, next_conn_id,
                   acceptWarns, tasks, conns, joinErrs, exit>>

\* SIGINT is delivered to the process.
Signal ==
    /\ exit = "running"
    /\ ~sigPending
    /\ sigPending' = TRUE
    /\ UNCHANGED <<cfgVars, mainPc, listener, backlog, next_conn_id,
                   acceptWarns, tasks, conns, joinErrs, exit>>

----------------------------------------------------------------------------
\* main: the accept loop.

\* Variant: the counter is not advanced.
NextIdStuck(id) == id

NextId(id) == id + 1

\* select! has taken the accept branch and dropped the ctrl_c() future of
\* this iteration; the next iteration calls signal::ctrl_c() again, and the
\* new future is told of the signals the runtime hands out after it was
\* created. A signal that was pending is either still to be handed out
\* (inTime) or was handed to the dropped future and is gone.
CtrlCRecreated(pending, inTime) == pending /\ inTime

\* Variant: main waits for the handlers before it accepts again.
AfterSpawnJoins == "drain"

\* Where main is after tasks.spawn(..): the handler runs as a task of its
\* own and the loop is back at the select.
AfterSpawn == "select"

\* select! takes the accept branch with Ok((socket, client_addr)).
AcceptOk ==
    /\ mainPc = "select"
    /\ listener = "bound"
    /\ backlog > 0
    /\ Len(conns) < MaxConns
    /\ backlog' = backlog - 1
    /\ next_conn_id' = NextId(next_conn_id)
    /\ conns' = Append(conns, NewConn(next_conn_id))
    /\ tasks' = tasks \cup {Len(conns) + 1}
    /\ mainPc' = AfterSpawn
    /\ \E inTime \in BOOLEAN : sigPending' = CtrlCRecreated(sigPending, inTime)
    /\ UNCHANGED <<cfgVars, listener, acceptWarns, joinErrs, exit>>

\* Variant: a failed accept leaves the loop.
AcceptErrBreaks == "drop"

\* Where main is after the Err(e) arm: back at the select.
AcceptErrPc == "select"

\* select! takes the accept branch with Err(e): a warning, and the loop goes on.
AcceptErr ==
    /\ mainPc = "select"
    /\ listener = "bound"
    /\ acceptWarns < MaxAcceptErrs
    /\ acceptWarns' = acceptWarns + 1
    /\ mainPc' = AcceptErrPc
    /\ \E inTime \in BOOLEAN : sigPending' = CtrlCRecreated(sigPending, inTime)
    /\ UNCHANGED <<cfgVars, listener, backlog, next_conn_id,
                   tasks, conns, joinErrs, exit>>

\* select! takes the ctrl_c branch: break.
ObserveSignal ==
    /\ mainPc = "select"
    /\ sigPending
    /\ mainPc' = "drop"
    /\ UNCHANGED <<cfgVars, listener, sigPending, backlog, next_conn_id,
                   acceptWarns, tasks, conns, joinErrs, exit>>

\* Variant: the listener is kept while the tasks are drained.
ListenerKept == "bound"

\* The listening socket once the loop has been left.
ListenerAfterLoop == "dropped"

\* drop(listener): the listening socket is closed, clients still queued on it
\* are reset by the operating system.
DropListener ==
    /\ mainPc = "drop"
    /\ listener' = ListenerAfterLoop
    /\ backlog' = IF ListenerAfterLoop = "dropped" THEN 0 ELSE backlog
    /\ mainPc' = "drain"
    /\ UNCHANGED <<cfgVars, sigPending, next_conn_id, acceptWarns, tasks,
                   conns, joinErrs, exit>>

----------------------------------------------------------------------------
\* main: the drain.

\* A task handle yields to join_next once its future has returned or has
\* panicked.
TaskFinished(c) == c.state \in {"Closed", "Panicked"}

\* Variant: main does not wait for the JoinSet to run empty.
JoinSetIgnored == TRUE

\* join_next() returns None: the JoinSet holds no task any more.
JoinSetEmpty == tasks = {}

\* Variant: the drain aborts a task instead of waiting for it.
JoinNextAborts(t) ==
    /\ mainPc = "drain"
    /\ t \in tasks
    /\ tasks' = tasks \ {t}
    /\ conns' = [conns EXCEPT ![t].state = "Closed"]
    /\ UNCHANGED <<cfgVars, mainPc, listener, sigPending, backlog,
                   next_conn_id, acceptWarns, joinErrs, exit>>

\* Variant: the error of a joined task is returned from main with `?`.
AfterJoinFails(c) == IF c.state = "Panicked" THEN "done" ELSE "drain"

\* Where main is after the body of the drain loop, whatever `res` was.
AfterJoin(c) == "drain"

\* One iteration of `while let Some(res) = tasks.join_next().await`: an
\* Err(e), the task having panicked, is logged and the loop goes on.
JoinNext(t) ==
    /\ mainPc = "drain"
    /\ t \in tasks
    /\ TaskFinished(conns[t])
    /\ tasks' = tasks \ {t}
    /\ joinErrs' = IF conns[t].state = "Panicked" THEN joinErrs + 1
                                                  ELSE joinErrs
    /\ mainPc' = AfterJoin(conns[t])
    /\ UNCHANGED <<cfgVars, listener, sigPending, backlog,
                   next_conn_id, acceptWarns, conns, exit>>

\* The loop ends, "Shutdown complete." is logged and main returns Ok(()).
ShutdownComplete ==
    /\ mainPc = "drain"
    /\ JoinSetEmpty
    /\ mainPc' = "done"
    /\ exit' = "status0"
    /\ UNCHANGED <<cfgVars, listener, sigPending, backlog, next_conn_id,
                   acceptWarns, tasks, conns, joinErrs>>

----------------------------------------------------------------------------
\* Environment of one handler.

\* The operating system resolves the outbound connect.
ConnectResolves(t, r) ==
    /\ conns[t].state = "Connecting"
    /\ conns[t].connRes = "pending"
    /\ conns' = [conns EXCEPT ![t].connRes = r]
    /\ UNCHANGED <<cfgVars, mainVars>>

\* Time passes for the timer the handler is currently racing against.
Tick(t) ==
    /\ conns[t].state \in {"Connecting", "Relaying"}
    /\ conns[t].elapsed < MaxTimeout
    /\ conns' = [conns EXCEPT ![t].elapsed = @ + 1]
    /\ UNCHANGED <<cfgVars, mainVars>>

\* The source of direction d (the client for c2r, the remote for r2c) sends
\* one more byte. Bytes sent while the handler is still connecting only wait
\* in the socket buffer, so sending is modelled from Relaying on.
PeerSends(t, d) ==
    /\ conns[t].state = "Relaying"
    /\ ~conns[t].eof[d]
    /\ TotalSent < MaxBytes
    /\ conns' = [conns EXCEPT ![t].sent[d] = @ + 1]
    /\ UNCHANGED <<cfgVars, mainVars>>

\* The source of direction d closes its write end.
PeerCloses(t, d) ==
    /\ conns[t].state = "Relaying"
    /\ ~conns[t].eof[d]
    /\ conns' = [conns EXCEPT ![t].eof[d] = TRUE]
    /\ UNCHANGED <<cfgVars, mainVars>>

----------------------------------------------------------------------------
\* handle_connection: the connect phase.

\* Variant: the timer is looked at before the connect.
ConnectOutcomeTimerFirst(c) ==
    IF c.elapsed >= connect_timeout THEN "Elapsed"
    ELSE IF c.connRes = "ok" THEN "Ok"
    ELSE IF c.connRes = "err" THEN "Err"
    ELSE "Pending"

\* What `time::timeout(connect_timeout, TcpStream::connect(..)).await` yields:
\* the connect is polled before the timer, so a result that is there wins.
ConnectOutcome(c) ==
    IF c.connRes = "ok" THEN "Ok"
    ELSE IF c.connRes = "err" THEN "Err"
    ELSE IF c.elapsed >= connect_timeout THEN "Elapsed"
    ELSE "Pending"

\* Ok(Ok(s)): "Connected", the relay starts and with it the session timer.
Connected(c) ==
    [c EXCEPT !.state = "Relaying", !.remote = "open", !.elapsed = 0,
              !.obs = Append(@, "Connected")]

\* Variant: the failure arms leave the client socket as it is.
ConnectFailedLeaks(c, what) ==
    [c EXCEPT !.state = "Closed", !.elapsed = 0, !.obs = Append(@, what)]

\* Variant: a failed connect is tried again.
ConnectFailedRetries(c, what) ==
    [c EXCEPT !.connRes = "pending", !.elapsed = 0, !.attempts = @ + 1,
              !.obs = Append(@, what)]

\* Ok(Err(e)) and Err(_): the observation, client_socket.shutdown(), return.
ConnectFailed(c, what) ==
    [c EXCEPT !.state = "Closed", !.client = "closed", !.elapsed = 0,
              !.clientCloses = @ + 1, !.obs = Append(@, what)]

\* Variant: a failed client_socket.shutdown() is propagated, so that the
\* remote socket is not shut down after it.
ShutdownEscalated(c, failed) ==
    IF failed /\ c.remote = "closed"
    THEN [c EXCEPT !.closeErr = TRUE, !.remote = "open", !.remoteCloses = 0]
    ELSE [c EXCEPT !.closeErr = failed]

\* `let _ = socket.shutdown().await`: whether a shutdown failed is dropped;
\* closeErr only keeps note of it.
ShutdownIgnored(c, failed) == [c EXCEPT !.closeErr = failed]

HandleConnected(t) ==
    /\ conns[t].state = "Connecting"
    /\ ConnectOutcome(conns[t]) = "Ok"
    /\ conns' = [conns EXCEPT ![t] = Connected(@)]
    /\ UNCHANGED <<cfgVars, mainVars>>

HandleConnectError(t) ==
    /\ conns[t].state = "Connecting"
    /\ ConnectOutcome(conns[t]) = "Err"
    /\ \E failed \in BOOLEAN :
          conns' = [conns EXCEPT ![t] = ShutdownIgnored(ConnectFailed(@, "FailedToConnect"), failed)]
    /\ UNCHANGED <<cfgVars, mainVars>>

HandleConnectTimeout(t) ==
    /\ conns[t].state = "Connecting"
    /\ ConnectOutcome(conns[t]) = "Elapsed"
    /\ \E failed \in BOOLEAN :
          conns' = [conns EXCEPT ![t] = ShutdownIgnored(ConnectFailed(@, "ConnectTimeout"), failed)]
    /\ UNCHANGED <<cfgVars, mainVars>>

----------------------------------------------------------------------------
\* handle_connection: the relay phase, copy_bidirectional(client, remote).

\* The read on the source of direction d returns 0: the source has closed its
\* write end and everything it sent has been read and written out.
AtEof(c, d) == c.eof[d] /\ c.amt[d] = c.sent[d]

\* One byte is read from the source of d and written to its destination.
Copy(t, d) ==
    /\ conns[t].state = "Relaying"
    /\ ~conns[t].done[d]
    /\ conns[t].amt[d] < conns[t].sent[d]
    /\ conns' = [conns EXCEPT ![t].amt[d] = @ + 1]
    /\ UNCHANGED <<cfgVars, mainVars>>

\* Direction d sees end-of-stream, shuts down the write end of its
\* destination and stops; the other direction goes on.
DirStops(t, d) ==
    /\ conns[t].state = "Relaying"
    /\ ~conns[t].done[d]
    /\ AtEof(conns[t], d)
    /\ conns' = [conns EXCEPT ![t].done[d] = TRUE]
    /\ UNCHANGED <<cfgVars, mainVars>>

\* Variant: the relay is complete as soon as one direction has stopped.
RelayCompleteEither(c) == \E d \in Dirs : c.done[d]

\* copy_bidirectional is Ready(Ok(..)) once both directions have stopped.
RelayComplete(c) == \A d \in Dirs : c.done[d]

\* Variant: the timer is raced whatever session_timeout is.
SessionElapsedAlways(c) == c.elapsed >= session_timeout

\* session_timeout.is_zero() is false and the session timer has run out.
SessionElapsed(c) == session_timeout # 0 /\ c.elapsed >= session_timeout

\* Variant: the timeout arm is taken without the timer having run out.
RelayOutcomeEager(c) ==
    IF RelayComplete(c) THEN "Complete"
    ELSE IF session_timeout # 0 THEN "Elapsed"
    ELSE "Pending"

\* Variant: the relay is awaited without the session timer whatever the
\* configuration says.
RelayOutcomeUntimed(c) ==
    IF RelayComplete(c) THEN "Complete"
    ELSE "Pending"

\* What the `if session_timeout.is_zero() {..} else {..}` expression awaits:
\* the relay alone, or the relay raced against the session timer, the relay
\* being polled first.
RelayOutcome(c) ==
    IF RelayComplete(c) THEN "Complete"
    ELSE IF SessionElapsed(c) THEN "Elapsed"
    ELSE "Pending"

\* Variant: the two counters are logged the wrong way round.
StatsSwapped(c) == <<c.amt["r2c"], c.amt["c2r"]>>

\* The statistics logged with "Closed connection": (c_to_r, r_to_c).
Stats(c) == <<c.amt["c2r"], c.amt["r2c"]>>

\* Variant: the teardown forgets the remote socket.
TeardownLeaksRemote(c) ==
    [c EXCEPT !.state = "Closed", !.elapsed = 0,
              !.client = "closed", !.clientCloses = @ + 1]

\* client_socket.shutdown() and remote_socket.shutdown(), results ignored,
\* then both sockets are dropped as the function returns.
Teardown(c) ==
    [c EXCEPT !.state = "Closed", !.elapsed = 0,
              !.client = "closed", !.clientCloses = @ + 1,
              !.remote = "closed", !.remoteCloses = @ + 1]

\* Ok(Some((c_to_r, r_to_c))): "Closed connection" with the byte counts.
ClosedNormally(c) ==
    Teardown([c EXCEPT !.obs = Append(@, "ClosedConnection"),
                       !.stats = Stats(c)])

\* Variant: the timeout arm logs the counters reached so far.
TimedOutWithStats(c) ==
    Teardown([c EXCEPT !.obs = Append(@, "SessionTimeout"),
                       !.stats = Stats(c)])

\* Ok(None): "Session timeout".
TimedOut(c) == Teardown([c EXCEPT !.obs = Append(@, "SessionTimeout")])

\* Err(e): "Piping error".
PipingFailed(c) == Teardown([c EXCEPT !.obs = Append(@, "PipingError")])

HandleRelayDone(t) ==
    /\ conns[t].state = "Relaying"
    /\ RelayOutcome(conns[t]) = "Complete"
    /\ \E failed \in BOOLEAN :
          conns' = [conns EXCEPT ![t] = ShutdownIgnored(ClosedNormally(@), failed)]
    /\ UNCHANGED <<cfgVars, mainVars>>

HandleSessionTimeout(t) ==
    /\ conns[t].state = "Relaying"
    /\ RelayOutcome(conns[t]) = "Elapsed"
    /\ \E failed \in BOOLEAN :
          conns' = [conns EXCEPT ![t] = ShutdownIgnored(TimedOut(@), failed)]
    /\ UNCHANGED <<cfgVars, mainVars>>

\* A read or a write of the relay fails.
HandlePipingError(t) ==
    /\ conns[t].state = "Relaying"
    /\ ~RelayComplete(conns[t])
    /\ \E failed \in BOOLEAN :
          conns' = [conns EXCEPT ![t] = ShutdownIgnored(PipingFailed(@), failed)]
    /\ UNCHANGED <<cfgVars, mainVars>>

----------------------------------------------------------------------------
EnvMain == ClientArrives \/ Signal

Main ==
    \/ AcceptOk
    \/ AcceptErr
    \/ ObserveSignal
    \/ DropListener
    \/ \E t \in tasks : JoinNext(t)
    \/ ShutdownComplete

EnvHandler(t) ==
    \/ \E r \in {"ok", "err"} : ConnectResolves(t, r)
    \/ Tick(t)
    \/ \E d \in Dirs : PeerSends(t, d)
    \/ \E d \in Dirs : PeerCloses(t, d)

Handler(t) ==
    \/ HandleConnected(t)
    \/ HandleConnectError(t)
    \/ HandleConnectTimeout(t)
    \/ \E d \in Dirs : Copy(t, d)
    \/ \E d \in Dirs : DirStops(t, d)
    \/ HandleRelayDone(t)
    \/ HandleSessionTimeout(t)
    \/ HandlePipingError(t)

Next ==
    \/ EnvMain
    \/ Main
    \/ \E t \in Spawned : EnvHandler(t)
    \/ \E t \in Spawned : Handler(t)

Spec == Init /\ [][Next]_vars

----------------------------------------------------------------------------
\* Fair scheduling: the runtime polls a task whose awaited future is ready,
\* timers run on, and main is polled when join_next is ready. Nothing is
\* assumed of the clients, the remote, the signal or the accept branch.
\* The steps a task takes when the future it awaits has resolved.
Resolves(t) ==
    \/ HandleConnected(t)
    \/ HandleConnectError(t)
    \/ HandleConnectTimeout(t)
    \/ HandleRelayDone(t)
    \/ HandleSessionTimeout(t)

TaskFair(t) ==
    /\ WF_vars(t \in Spawned /\ Tick(t))
    /\ WF_vars(t \in Spawned /\ Resolves(t))

MainFair ==
    WF_vars(DropListener \/ (\E t \in tasks : JoinNext(t)) \/ ShutdownComplete)

\* The peers of a connection as far as termination depends on them: whether
\* and when the connect resolves, the timers, and whether and when each side
\* closes. The bytes they send are left out of the fair runs.
EnvQuiet(t) ==
    \/ \E r \in {"ok", "err"} : ConnectResolves(t, r)
    \/ Tick(t)
    \/ \E d \in Dirs : PeerCloses(t, d)

NextQuiet ==
    \/ EnvMain
    \/ Main
    \/ \E t \in Spawned : EnvQuiet(t)
    \/ \E t \in Spawned : Handler(t)

SpecFair ==
    /\ Init
    /\ [][NextQuiet]_vars
    /\ MainFair
    /\ \A t \in 1..MaxConns : TaskFair(t)

----------------------------------------------------------------------------
\* Runs in which a task may fail unexpectedly: its future panics at one of its
\* polls and is dropped by the unwinding, which closes the sockets it owns
\* without any of its teardown code being run.
Panicked(c) ==
    [c EXCEPT !.state = "Panicked", !.elapsed = 0, !.client = "closed",
              !.remote = IF @ = "open" THEN "closed" ELSE @]

TaskPanics(t) ==
    /\ conns[t].state \in {"Connecting", "Relaying"}
    /\ conns' = [conns EXCEPT ![t] = Panicked(@)]
    /\ UNCHANGED <<cfgVars, mainVars>>

NextFaulty ==
    \/ Next
    \/ \E t \in Spawned : TaskPanics(t)

SpecFaulty == Init /\ [][NextFaulty]_vars

----------------------------------------------------------------------------
\* One handle_connection task on its own: the state right after main has
\* accepted the first client and spawned its task, and the steps of that task
\* and of its environment only.
InitHandler ==
    /\ connect_timeout \in ConnectTimeouts
    /\ session_timeout \in SessionTimeouts
    /\ mainPc = "select"
    /\ listener = "bound"
    /\ sigPending = FALSE
    /\ backlog = 0
    /\ next_conn_id = NextId(1)
    /\ acceptWarns = 0
    /\ tasks = {1}
    /\ conns = <<NewConn(1)>>
    /\ joinErrs = 0
    /\ exit = "running"

NextHandler ==
    \/ \E t \in Spawned : EnvHandler(t)
    \/ \E t \in Spawned : Handler(t)

SpecHandler == InitHandler /\ [][NextHandler]_vars

----------------------------------------------------------------------------
\* Properties.

Last(q) == q[Len(q)]
Has(c, what) == \E i \in 1..Len(c.obs) : c.obs[i] = what
Live(c) == c.state \in {"Connecting", "Relaying"}
Closes(c, c2) == c.state # "Closed" /\ c2.state = "Closed"

\* C1: "Shutdown complete." is reported and main returns with status 0 only
\* when no spawned handler task is still Connecting or Relaying.
ShutdownOnlyAfterAllClosed ==
    exit = "status0" => \A t \in Spawned : conns[t].state = "Closed"

\* Shutdown was reported after two handlers ran, one through a relay.
ShutdownAfterTwoHandlers ==
    /\ exit = "status0"
    /\ Len(conns) >= 2
    /\ \E t \in Spawned : Has(conns[t], "Connected")

\* C2: once main has left the select for the ctrl_c branch it never returns to
\* it, calls accept no more (no task is spawned, no ID consumed, no accept
\* warning logged) whatever arrives on the listener, and the listener is
\* dropped by the time the drain starts.
NoAcceptAfterSignal ==
    /\ [](mainPc \in {"drain", "done"} => listener = "dropped" /\ backlog = 0)
    /\ [][mainPc # "select" =>
            /\ mainPc' # "select"
            /\ Len(conns') = Len(conns)
            /\ next_conn_id' = next_conn_id
            /\ acceptWarns' = acceptWarns
            /\ tasks' \subseteq tasks]_vars

\* The ctrl_c branch was taken while a client was waiting to be accepted.
SignalTakenWithClientWaiting ==
    /\ mainPc = "drop"
    /\ backlog > 0
    /\ listener = "bound"

\* The ways a handler in state c ends, by its own transitions alone.
OwnOutcome(c) ==
    (IF c.state = "Connecting" /\ c.connRes = "err"
        THEN {ConnectFailed(c, "FailedToConnect")} ELSE {})
    \cup
    (IF c.state = "Connecting" /\ c.connRes = "pending"
                               /\ c.elapsed >= connect_timeout
        THEN {ConnectFailed(c, "ConnectTimeout")} ELSE {})
    \cup
    (IF c.state = "Relaying" /\ RelayComplete(c)
        THEN {ClosedNormally(c)} ELSE {})
    \cup
    (IF c.state = "Relaying" /\ ~RelayComplete(c) /\ session_timeout # 0
                             /\ c.elapsed >= session_timeout
        THEN {TimedOut(c)} ELSE {})
    \cup
    (IF c.state = "Relaying" /\ ~RelayComplete(c)
        THEN {PipingFailed(c)} ELSE {})

OwnClose(c) ==
    {ShutdownIgnored(x, failed) : x \in OwnOutcome(c), failed \in BOOLEAN}

\* C3: no step of main or of the signal touches a spawned handler, and a
\* handler becomes Closed only by one of its own transitions (connect error,
\* connect timeout, relay completion, session timeout, I/O error), whether or
\* not the signal has been delivered or observed.
SignalLeavesHandlersAlone ==
    [][\A t \in Spawned :
          /\ mainVars' # mainVars => conns'[t] = conns[t]
          /\ Closes(conns[t], conns'[t]) => conns'[t] \in OwnClose(conns[t])
      ]_vars

\* The drain is waiting on a handler that closed normally after relaying data
\* and on one that is still relaying.
DrainWithHandlersInFlight ==
    /\ mainPc = "drain"
    /\ \E t \in tasks : conns[t].state = "Relaying"
    /\ \E t \in tasks : /\ Has(conns[t], "ClosedConnection")
                        /\ conns[t].stats # <<0, 0>>

\* C4: a failed accept leaves main at the select with the listener bound,
\* spawns nothing and consumes no connection ID; main leaves the select only
\* for the ctrl_c branch, with the signal delivered; and at the select a
\* waiting client can be accepted however many accepts have failed.
AcceptErrorKeepsLoop ==
    /\ [](mainPc = "select" /\ backlog > 0 => ENABLED AcceptOk)
    /\ [][/\ acceptWarns' # acceptWarns =>
               /\ mainPc' = "select"
               /\ listener' = "bound"
               /\ conns' = conns
               /\ tasks' = tasks
               /\ next_conn_id' = next_conn_id
          /\ (mainPc = "select" /\ mainPc' # "select") =>
               /\ sigPending
               /\ mainPc' = "drop"
               /\ acceptWarns' = acceptWarns
         ]_vars

\* Every accept so far has failed, the loop is at the select and a client is
\* waiting to be accepted.
AcceptingAfterErrors ==
    /\ acceptWarns = MaxAcceptErrs
    /\ mainPc = "select"
    /\ backlog > 0
    /\ conns = << >>
    /\ next_conn_id = 1

\* C5: connection IDs strictly increase in the order of acceptance, hence are
\* pairwise distinct, in particular among handlers live at the same time.
IdsIncrease ==
    \A i, j \in Spawned : i < j => conns[i].id < conns[j].id

\* Two handlers are live at the same time.
TwoLiveHandlers ==
    \E i, j \in Spawned : i # j /\ Live(conns[i]) /\ Live(conns[j])

\* C6: a handler moves only Connecting -> Relaying -> Closed or
\* Connecting -> Closed; it enters Relaying only with a successful outbound
\* connect, makes one connect attempt, and once Closed never changes again.
HandlerLifecycle ==
    [][\A t \in Spawned :
          LET c == conns[t]
              c2 == conns'[t]
          IN  /\ c2.state # c.state =>
                    <<c.state, c2.state>> \in {<<"Connecting", "Relaying">>,
                                               <<"Connecting", "Closed">>,
                                               <<"Relaying", "Closed">>}
              /\ (c.state = "Connecting" /\ c2.state = "Relaying") =>
                    c.connRes = "ok" /\ c2.remote = "open"
              /\ c.attempts = 1 /\ c2.attempts = 1
              /\ c.state = "Closed" => c2 = c
      ]_vars

\* A handler went through all three states.
WentThroughAllStates ==
    \E t \in Spawned :
        /\ conns[t].state = "Closed"
        /\ conns[t].obs = <<"Connected", "ClosedConnection">>

ConnectFailures == {"FailedToConnect", "ConnectTimeout"}

\* C7: a handler whose connect failed or timed out is Closed with its client
\* socket closed, never held a remote socket, never relayed and copied no
\* byte; and the step in which it fails changes nothing of main and nothing
\* of any other handler.
ConnectFailureRelaysNothing ==
    /\ [](\A t \in Spawned :
            (\E w \in ConnectFailures : Has(conns[t], w)) =>
                /\ conns[t].state = "Closed"
                /\ conns[t].client = "closed"
                /\ conns[t].remote = "none"
                /\ conns[t].remoteCloses = 0
                /\ Len(conns[t].obs) = 1
                /\ conns[t].amt = Zero
                /\ conns[t].stats = << >>)
    /\ [][\A t \in Spawned :
            (conns[t].state = "Connecting" /\ conns'[t].state = "Closed") =>
                /\ Last(conns'[t].obs) \in ConnectFailures
                /\ mainVars' = mainVars
                /\ \A u \in Spawned \ {t} : conns'[u] = conns[u]
         ]_vars

\* One handler failed to connect, by timeout, while another one has relayed
\* data and the loop is still at the select.
FailureBesideRelay ==
    /\ mainPc = "select"
    /\ \E t, u \in Spawned :
        /\ conns[t].obs = <<"ConnectTimeout">>
        /\ conns[u].state = "Relaying"
        /\ conns[u].amt["c2r"] > 0

\* C8: with session_timeout = 0 no handler ever emits the session-timeout
\* observation; a handler that relayed ends by normal close or piping error.
NoSessionTimeoutWhenZero ==
    session_timeout = 0 =>
        \A t \in Spawned :
            /\ ~Has(conns[t], "SessionTimeout")
            /\ (conns[t].state = "Closed" /\ Has(conns[t], "Connected")) =>
                    Last(conns[t].obs) \in {"ClosedConnection", "PipingError"}

\* With session_timeout = 0 a relay is still running after the longest timer
\* of the model has run out.
LongRelayWithoutTimeout ==
    /\ session_timeout = 0
    /\ \E t \in Spawned :
        /\ conns[t].state = "Relaying"
        /\ conns[t].elapsed = MaxTimeout
        /\ ~RelayComplete(conns[t])

\* C9: a handler that is relaying with a non-zero session_timeout, the
\* session timer run out and the relay not complete can take the
\* session-timeout transition and cannot take the normal close. The
\* session-timeout transition is taken only in that case; it emits
\* "Session timeout" and no "Closed connection" or byte counts, closes both
\* sockets and copies nothing, and once it is taken no byte is copied any
\* more. The normal close is taken only by a relay that has completed.
SessionTimeoutForcesClose ==
    /\ [](\A t \in Spawned :
            (/\ conns[t].state = "Relaying"
             /\ session_timeout # 0
             /\ conns[t].elapsed >= session_timeout
             /\ ~RelayComplete(conns[t])) =>
                /\ ENABLED HandleSessionTimeout(t)
                /\ ~ENABLED HandleRelayDone(t))
    /\ [][\A t \in Spawned :
             LET c == conns[t]
                 c2 == conns'[t]
             IN  /\ (~Has(c, "SessionTimeout") /\ Has(c2, "SessionTimeout")) =>
                       /\ c.state = "Relaying"
                       /\ session_timeout # 0
                       /\ c.elapsed >= session_timeout
                       /\ ~RelayComplete(c)
                       /\ c2.state = "Closed"
                       /\ c2.obs = <<"Connected", "SessionTimeout">>
                       /\ c2.stats = << >>
                       /\ c2.client = "closed" /\ c2.remote = "closed"
                       /\ c2.amt = c.amt
                 /\ Has(c, "SessionTimeout") => c2.amt = c.amt /\ c2 = c
                 /\ (~Has(c, "ClosedConnection") /\ Has(c2, "ClosedConnection"))
                       => RelayComplete(c)
         ]_vars

\* A relay was ended by the session timeout with a byte sent by the client
\* not yet relayed and the remote not having closed.
TimedOutWithBytesPending ==
    \E t \in Spawned :
        /\ Has(conns[t], "SessionTimeout")
        /\ conns[t].amt["c2r"] < conns[t].sent["c2r"]
        /\ ~conns[t].eof["r2c"]

\* C10: a session that ended by normal close reports exactly the bytes the
\* client sent as client_to_remote and the bytes the remote sent as
\* remote_to_client, both peers have closed, all of it was relayed, and both
\* sockets are closed.
NormalCloseCountsExact ==
    \A t \in Spawned :
        Has(conns[t], "ClosedConnection") =>
            /\ conns[t].stats = <<conns[t].sent["c2r"], conns[t].sent["r2c"]>>
            /\ conns[t].amt = conns[t].sent
            /\ \A d \in Dirs : conns[t].eof[d]
            /\ conns[t].client = "closed"
            /\ conns[t].remote = "closed"

\* A normal close reported a non-zero count in each direction.
NormalCloseWithBothDirections ==
    \E t \in Spawned :
        /\ Has(conns[t], "ClosedConnection")
        /\ conns[t].stats[1] > 0
        /\ conns[t].stats[2] > 0

Terminals == {"FailedToConnect", "ConnectTimeout", "ClosedConnection",
              "SessionTimeout", "PipingError"}

TerminalCount(c) == Cardinality({i \in 1..Len(c.obs) : c.obs[i] \in Terminals})

\* C11: byte counts are logged only with "Closed connection"; a handler has
\* emitted no terminal observation while it runs and exactly one, its last
\* observation, once it is Closed; and that observation is the one of the
\* transition taken: connect error, connect timeout, completed relay, session
\* timer run out on an incomplete relay, or error of an incomplete relay.
CountsOnlyOnNormalClose ==
    /\ [](\A t \in Spawned :
            LET c == conns[t]
            IN  /\ c.stats # << >> => Last(c.obs) = "ClosedConnection"
                /\ TerminalCount(c) = IF c.state = "Closed" THEN 1 ELSE 0
                /\ c.state = "Closed" => Last(c.obs) \in Terminals)
    /\ [][\A t \in Spawned :
             LET c == conns[t]
                 c2 == conns'[t]
                 o == Last(c2.obs)
             IN  Closes(c, c2) =>
                   /\ Len(c2.obs) = Len(c.obs) + 1
                   /\ o = "FailedToConnect" =>
                        c.state = "Connecting" /\ c.connRes = "err"
                   /\ o = "ConnectTimeout" =>
                        /\ c.state = "Connecting" /\ c.connRes = "pending"
                        /\ c.elapsed >= connect_timeout
                   /\ o = "ClosedConnection" =>
                        /\ c.state = "Relaying" /\ RelayComplete(c)
                        /\ c2.stats = <<c.amt["c2r"], c.amt["r2c"]>>
                   /\ o = "SessionTimeout" =>
                        /\ c.state = "Relaying" /\ ~RelayComplete(c)
                        /\ session_timeout # 0
                        /\ c.elapsed >= session_timeout
                   /\ o = "PipingError" =>
                        c.state = "Relaying" /\ ~RelayComplete(c)
                   /\ o # "ClosedConnection" => c2.stats = << >>
         ]_vars

\* A relay that had copied a byte ended by a piping error, without counts.
PipingErrorAfterBytes ==
    \E t \in Spawned :
        /\ Has(conns[t], "PipingError")
        /\ conns[t].amt["c2r"] > 0
        /\ conns[t].stats = << >>

\* C12: a running handler has closed nothing; a Closed handler has closed
\* its client socket exactly once and its remote socket exactly once if the
\* connect had succeeded (there is none otherwise); nothing of the handler
\* changes after the close; and a shutdown that fails leaves the handler in
\* the very state the transition gives when the shutdown succeeds.
TeardownExactlyOnce ==
    /\ [](\A t \in Spawned :
            LET c == conns[t]
            IN  IF c.state # "Closed"
                THEN /\ c.clientCloses = 0 /\ c.client = "open"
                     /\ c.remoteCloses = 0 /\ c.remote # "closed"
                     /\ ~c.closeErr
                ELSE /\ c.clientCloses = 1 /\ c.client = "closed"
                     /\ IF Has(c, "Connected")
                        THEN c.remoteCloses = 1 /\ c.remote = "closed"
                        ELSE c.remoteCloses = 0 /\ c.remote = "none")
    /\ [][\A t \in Spawned :
             LET c == conns[t]
                 c2 == conns'[t]
             IN  /\ c.state = "Closed" => c2 = c
                 /\ Closes(c, c2) =>
                        [c2 EXCEPT !.closeErr = FALSE] \in OwnOutcome(c)
         ]_vars

\* A handler closed normally although a shutdown of its sockets failed.
ClosedDespiteShutdownError ==
    \E t \in Spawned :
        /\ conns[t].closeErr
        /\ Has(conns[t], "ClosedConnection")
        /\ conns[t].remote = "closed"

Other(d) == IF d = "c2r" THEN "r2c" ELSE "c2r"

\* C13: a direction stops only at end-of-stream of its own source, with all
\* that source sent written out, and its stopping leaves the other direction
\* as it is; while one direction has not stopped the normal close cannot be
\* taken, and what the source of the running direction has sent can still be
\* copied after the other direction has stopped.
HalfCloseDrains ==
    /\ [](\A t \in Spawned : \A d \in Dirs :
            LET c == conns[t]
            IN  (c.state = "Relaying" /\ ~c.done[d]) =>
                    /\ ~ENABLED HandleRelayDone(t)
                    /\ c.amt[d] < c.sent[d] => ENABLED Copy(t, d))
    /\ [][\A t \in Spawned : \A d \in Dirs :
             LET c == conns[t]
                 c2 == conns'[t]
             IN  /\ (~c.done[d] /\ c2.done[d]) =>
                        /\ c.eof[d] /\ c.amt[d] = c.sent[d]
                        /\ c2.done[Other(d)] = c.done[Other(d)]
                        /\ c2.state = "Relaying"
                 /\ (~Has(c, "ClosedConnection") /\ Has(c2, "ClosedConnection"))
                        => c.done[d] /\ c.done[Other(d)]
         ]_vars

\* The client has half-closed and its direction has stopped, while a byte
\* sent by the remote is still to be relayed.
HalfClosedWithBytesPending ==
    \E t \in Spawned :
        /\ conns[t].state = "Relaying"
        /\ conns[t].done["c2r"]
        /\ ~conns[t].done["r2c"]
        /\ conns[t].amt["r2c"] < conns[t].sent["r2c"]

PanickedTasks == {t \in Spawned : conns[t].state = "Panicked"}

\* C14: a task that panicked is joined like any other and logged once when it
\* is joined; a panic changes nothing of main or of another task; during the
\* drain every finished task can be joined whatever the others did, main
\* ends only by returning Ok(()) with status 0, and it does so only when all
\* tasks have been joined, each task Closed or Panicked.
PanicDoesNotStopDrain ==
    /\ [](/\ joinErrs = Cardinality(PanickedTasks \ tasks)
          /\ mainPc = "done" <=> exit = "status0"
          /\ exit = "status0" =>
                /\ tasks = {}
                /\ \A t \in Spawned : TaskFinished(conns[t])
          /\ \A t \in tasks :
                (mainPc = "drain" /\ TaskFinished(conns[t])) =>
                    ENABLED JoinNext(t))
    /\ [][\A t \in Spawned :
             (conns[t].state # "Panicked" /\ conns'[t].state = "Panicked") =>
                /\ mainVars' = mainVars
                /\ \A u \in Spawned \ {t} : conns'[u] = conns[u]
         ]_vars

\* Shutdown was reported after one task had panicked, which was logged, and
\* another one had relayed and closed normally.
ShutdownAfterPanic ==
    /\ exit = "status0"
    /\ joinErrs = 1
    /\ \E t, u \in Spawned :
        /\ conns[t].state = "Panicked"
        /\ Has(conns[u], "ClosedConnection")

\* C15: a handler that has ended holds no open socket, whichever path it
\* took: the client socket is open exactly while the handler runs, and the
\* remote socket, opened by the one connect attempt, exactly while it relays.
NoSocketLeftOpen ==
    \A t \in Spawned :
        LET c == conns[t]
        IN  /\ c.client = "open" <=> c.state \in {"Connecting", "Relaying"}
            /\ c.remote = "open" <=> c.state = "Relaying"
            /\ c.state = "Closed" =>
                    /\ c.client \notin {"open"}
                    /\ c.remote \in {"none", "closed"}
                    /\ c.remote = "none" <=> ~Has(c, "Connected")
            /\ c.attempts <= 1

\* A handler whose relay was cut by the session timeout has released both
\* sockets.
BothReleasedAfterTimeout ==
    \E t \in Spawned :
        /\ conns[t].state = "Closed"
        /\ Has(conns[t], "SessionTimeout")
        /\ conns[t].client = "closed"
        /\ conns[t].remote = "closed"

\* C16: with session_timeout = 0, while the remote has not closed its side a
\* relaying handler can take neither the normal close nor the session
\* timeout (only an I/O error would end it), its task cannot be joined and
\* main cannot report the shutdown: as long as the remote stays open the
\* drain stays where it is.
DrainBlockedByOpenRelay ==
    \A t \in Spawned :
        (/\ session_timeout = 0
         /\ conns[t].state = "Relaying"
         /\ ~conns[t].eof["r2c"]) =>
            /\ ~ENABLED HandleRelayDone(t)
            /\ ~ENABLED HandleSessionTimeout(t)
            /\ ~ENABLED DirStops(t, "r2c")
            /\ t \in tasks
            /\ ~ENABLED JoinNext(t)
            /\ ~ENABLED ShutdownComplete
            /\ exit = "running"

\* The signal has been observed and the drain has joined all it can: with
\* session_timeout = 0 one handler is relaying to a remote that has not
\* closed, every timer of the model has run out, nothing is left to copy, and
\* main has no step.
DrainStuckOnOpenRelay ==
    /\ session_timeout = 0
    /\ mainPc = "drain"
    /\ ~ENABLED Main
    /\ \E t \in tasks :
        /\ conns[t].state = "Relaying"
        /\ ~conns[t].eof["r2c"]
        /\ conns[t].elapsed = MaxTimeout
        /\ \A d \in Dirs : ~ENABLED Copy(t, d) /\ ~ENABLED DirStops(t, d)

\* C17: with a non-zero session_timeout, under fair scheduling of tasks and
\* timers, every spawned handler is eventually Closed, and once main has
\* taken the ctrl_c branch it eventually reports the shutdown and returns
\* with status 0.
DrainTerminatesWithSessionTimeout ==
    /\ \A t \in 1..MaxConns :
          (session_timeout # 0 /\ t \in Spawned)
              ~> (t \in Spawned /\ conns[t].state = "Closed")
    /\ (session_timeout # 0 /\ mainPc = "drop") ~> (exit = "status0")

\* Shutdown was reported with a non-zero session_timeout after a relay whose
\* remote never closed was ended by the session timer.
ShutdownAfterSessionTimeout ==
    /\ exit = "status0"
    /\ session_timeout # 0
    /\ \E t \in Spawned :
        /\ Has(conns[t], "SessionTimeout")
        /\ ~conns[t].eof["r2c"]

\* C18: a termination signal delivered at any moment after the listener is
\* bound, also while the loop is between two iterations of the select, is
\* observed by the accept loop: once delivered it stays visible to the loop
\* until the loop takes the ctrl_c branch and leaves for the drain.
DeliveredSignalObserved ==
    [][(sigPending /\ mainPc = "select")
          => (sigPending' \/ mainPc' = "drop")]_vars

\* C19: in the race of an operation against its timer the handler takes the
\* transition of the one that is ready when it looks, and the operation's when
\* both are: a connect that has resolved leads to "Connected" or "Failed to
\* connect" even with the connect timer run out, a completed relay to
\* "Closed connection" even with the session timer run out; the timeout
\* transitions are open only while the operation has not completed, and
\* while neither is ready the handler waits.
OperationWinsRace ==
    /\ [](\A t \in Spawned :
            LET c == conns[t]
                connecting == c.state = "Connecting"
                relaying == c.state = "Relaying"
            IN  /\ (connecting /\ c.connRes = "ok") =>
                      /\ ENABLED HandleConnected(t)
                      /\ ~ENABLED HandleConnectTimeout(t)
                /\ (connecting /\ c.connRes = "err") =>
                      /\ ENABLED HandleConnectError(t)
                      /\ ~ENABLED HandleConnectTimeout(t)
                /\ (connecting /\ c.connRes = "pending") =>
                      /\ ~ENABLED HandleConnected(t)
                      /\ ~ENABLED HandleConnectError(t)
                      /\ ENABLED HandleConnectTimeout(t)
                            <=> c.elapsed >= connect_timeout
                /\ (relaying /\ RelayComplete(c)) =>
                      /\ ENABLED HandleRelayDone(t)
                      /\ ~ENABLED HandleSessionTimeout(t)
                /\ (relaying /\ ~RelayComplete(c)) =>
                      /\ ~ENABLED HandleRelayDone(t)
                      /\ ENABLED HandleSessionTimeout(t)
                            <=> (session_timeout # 0
                                    /\ c.elapsed >= session_timeout))
    /\ [][\A t \in Spawned :
             LET c == conns[t]
                 c2 == conns'[t]
             IN  /\ (/\ c.state = "Connecting" /\ c2.state # "Connecting"
                     /\ c.connRes # "pending"
                     /\ c.elapsed >= connect_timeout) =>
                        Last(c2.obs) = IF c.connRes = "ok" THEN "Connected"
                                       ELSE "FailedToConnect"
                 /\ (/\ c.state = "Relaying" /\ c2.state # "Relaying"
                     /\ RelayComplete(c)
                     /\ session_timeout # 0
                     /\ c.elapsed >= session_timeout) =>
                        Last(c2.obs) = "ClosedConnection"
         ]_vars

\* A relay that has copied data is complete and its session timer has run
\* out, the handler not having looked yet.
BothReadyAtOnce ==
    \E t \in Spawned :
        /\ conns[t].state = "Relaying"
        /\ RelayComplete(conns[t])
        /\ session_timeout # 0
        /\ conns[t].elapsed >= session_timeout
        /\ conns[t].amt["c2r"] > 0

\* C20: the accept loop never waits on a handler. While the loop is at the
\* select with the listener bound, a waiting client can be accepted whatever
\* the handlers are doing; the accept spawns the new handler in Connecting,
\* leaves every other handler as it is and takes the loop straight back to
\* the select. A step of one handler, or of its peers, changes the record of
\* that handler only: nothing of main and nothing of another handler.
AcceptNeverWaitsOnHandler ==
    /\ []((/\ mainPc = "select"
           /\ listener = "bound"
           /\ backlog > 0
           /\ Len(conns) < MaxConns) => ENABLED AcceptOk)
    /\ [][Len(conns') > Len(conns) =>
             /\ mainPc = "select" /\ mainPc' = "select"
             /\ Len(conns') = Len(conns) + 1
             /\ conns'[Len(conns')] = NewConn(next_conn_id)
             /\ tasks' = tasks \cup {Len(conns')}
             /\ \A u \in Spawned : conns'[u] = conns[u]
         ]_vars
    /\ [][\A t \in Spawned :
             conns'[t] # conns[t] =>
                /\ mainVars' = mainVars
                /\ Len(conns') = Len(conns)
                /\ \A u \in Spawned \ {t} : conns'[u] = conns[u]
         ]_vars

\* With no session timer a relay that has copied data goes on after the
\* longest timer of the model, neither side closing, and the loop, no signal
\* pending, can accept the client that is waiting.
AcceptOpenBesideEndlessRelay ==
    /\ mainPc = "select"
    /\ ~sigPending
    /\ backlog > 0
    /\ session_timeout = 0
    /\ ENABLED AcceptOk
    /\ \E t \in Spawned :
        /\ conns[t].state = "Relaying"
        /\ conns[t].elapsed = MaxTimeout
        /\ conns[t].amt["c2r"] > 0
        /\ \A d \in Dirs : ~conns[t].eof[d]

====
